---- MODULE Spec2Model ----
(***************************************************************************)
(* Model of build_vfd_report.py (version 0.5): the VFD stock-list report.  *)
(*                                                                         *)
(* A report run loads three tables, filters and prices the inventory rows, *)
(* sorts the records by capacity and series rank, numbers them, and saves  *)
(* the PDF under the next free version name of the day.                    *)
(*                                                                         *)
(* Strings are sequences of one-character strings, so that the regular     *)
(* expressions, str.replace, str.lower and the substring tests of the      *)
(* script are computed character by character.  Floating-point values are  *)
(* exact rationals [num, den] in lowest terms; NaN, None and float("inf")  *)
(* are the distinct values NaN, None and Inf.                              *)
(***************************************************************************)
EXTENDS Integers, Sequences, FiniteSets, TLC

VARIABLES
    inv_df,         \* inventory rows: sequence of [Model, Qty, TotalCost]
    listprice_map,  \* master list-price map: function model -> price
    price127_map,   \* 1.27 price map: function model -> price
    DATE_STR,       \* date stamp of the run
    PDF_DIR,        \* names of the files in pdf_reports/
    idx,            \* number of inventory rows the TRANSFORM loop has consumed
    records,        \* list built by the TRANSFORM loop
    df,             \* the data frame after sorting (and numbering)
    filename,       \* name chosen by next_pdf_filename in this run
    run_no,         \* number of the current run of the script
    pc              \* position of the script

vars == <<inv_df, listprice_map, price127_map, DATE_STR, PDF_DIR, idx,
          records, df, filename, run_no, pc>>

\* ------------------------------------------------------------------------
\* Bounds of the model
\* ------------------------------------------------------------------------
MaxRows == 2

MaxRuns == 2

\* ------------------------------------------------------------------------
\* Special values
\* ------------------------------------------------------------------------
None == [tag |-> "None"]

NaN == [tag |-> "NaN"]

Inf == [tag |-> "inf"]

\* ------------------------------------------------------------------------
\* Exact rational arithmetic standing for Python floats
\* ------------------------------------------------------------------------
Abs(n) == IF n < 0 THEN -n ELSE n

RECURSIVE GCD(_, _)
GCD(a, b) == IF b = 0 THEN a ELSE GCD(b, a % b)

Rat(n, d) ==
    LET s == IF d < 0 THEN -1 ELSE 1
        g == GCD(Abs(n), Abs(d))
    IN [num |-> (s * n) \div g, den |-> (s * d) \div g]

R(n) == [num |-> n, den |-> 1]

RatMul(a, b) == Rat(a.num * b.num, a.den * b.den)

RatSub(a, b) == Rat(a.num * b.den - b.num * a.den, a.den * b.den)

RatDiv(a, b) == Rat(a.num * b.den, a.den * b.num)

RatLT(a, b) == a.num * b.den < b.num * a.den

\* float * float, float - float, float / float with NaN propagation
FMul(x, y) == IF x = NaN \/ y = NaN THEN NaN ELSE RatMul(x, y)

FSub(x, y) == IF x = NaN \/ y = NaN THEN NaN ELSE RatSub(x, y)

FDiv(x, y) == IF x = NaN \/ y = NaN THEN NaN ELSE RatDiv(x, y)

\* Python truthiness of a float or None: None and 0.0 are false, NaN is true
Truthy(x) == x # None /\ (x = NaN \/ x.num # 0)

\* pd.isna / pd.notna
isna(x) == x \in {None, NaN}

\* ordering of float keys that may be float("inf")
FloatLT(a, b) ==
    IF a = Inf THEN FALSE
    ELSE IF b = Inf THEN TRUE
    ELSE RatLT(a, b)

\* ------------------------------------------------------------------------
\* Characters and strings
\* ------------------------------------------------------------------------
UpperChars == <<"A","B","C","D","E","F","G","H","I","J","K","L","M",
                "N","O","P","Q","R","S","T","U","V","W","X","Y","Z">>

LowerChars == <<"a","b","c","d","e","f","g","h","i","j","k","l","m",
                "n","o","p","q","r","s","t","u","v","w","x","y","z">>

DigitChars == <<"0","1","2","3","4","5","6","7","8","9">>

IsUpper(c) == \E k \in 1..26 : UpperChars[k] = c

IsDigit(c) == \E k \in 1..10 : DigitChars[k] = c

IsSpace(c) == c = " "

DigitVal(c) == (CHOOSE k \in 1..10 : DigitChars[k] = c) - 1

\* str.lower on one character and on a string
LowerChar(c) ==
    IF IsUpper(c) THEN LowerChars[CHOOSE k \in 1..26 : UpperChars[k] = c] ELSE c

lower(s) == [k \in 1..Len(s) |-> LowerChar(s[k])]

SetMin(S) == CHOOSE m \in S : \A x \in S : m <= x

SetMax(S) == CHOOSE m \in S : \A x \in S : x <= m

\* pat occurs in s at position p
OccursAt(s, pat, p) ==
    /\ p >= 1
    /\ p + Len(pat) - 1 <= Len(s)
    /\ \A k \in 1..Len(pat) : s[p + k - 1] = pat[k]

\* `pat in s`
Contains(s, pat) == \E p \in 1..Len(s) : OccursAt(s, pat, p)

\* position of the leftmost occurrence of pat in s (pat occurs in s)
FindFirst(s, pat) == SetMin({ p \in 1..Len(s) : OccursAt(s, pat, p) })

\* s.replace(old, new, 1)
replace1(s, old, new) ==
    IF ~Contains(s, old) THEN s
    ELSE LET p == FindFirst(s, old)
         IN SubSeq(s, 1, p - 1) \o new \o SubSeq(s, p + Len(old), Len(s))

\* int(digits); leading zeros are allowed
RECURSIVE DigitsToInt(_)
DigitsToInt(ds) ==
    IF ds = <<>> THEN 0
    ELSE 10 * DigitsToInt(SubSeq(ds, 1, Len(ds) - 1)) + DigitVal(ds[Len(ds)])

RECURSIVE Pow10(_)
Pow10(n) == IF n = 0 THEN 1 ELSE 10 * Pow10(n - 1)

\* float(tok) for tok of the shape [0-9]+(\.[0-9]+)?
ParseFloat(tok) ==
    IF Contains(tok, <<".">>)
    THEN LET p == FindFirst(tok, <<".">>)
             ip == SubSeq(tok, 1, p - 1)
             fp == SubSeq(tok, p + 1, Len(tok))
         IN Rat(DigitsToInt(ip) * Pow10(Len(fp)) + DigitsToInt(fp), Pow10(Len(fp)))
    ELSE R(DigitsToInt(tok))

\* int -> decimal digits, no padding (n >= 0)
RECURSIVE IntToDigits(_)
IntToDigits(n) ==
    IF n < 10 THEN <<DigitChars[n + 1]>>
    ELSE Append(IntToDigits(n \div 10), DigitChars[(n % 10) + 1])

\* f"{n:02d}"
Format02d(n) == IF n < 10 THEN <<"0">> \o IntToDigits(n) ELSE IntToDigits(n)

\* ------------------------------------------------------------------------
\* Configuration
\* ------------------------------------------------------------------------
SKIP_MODEL_EXACT ==
    { <<"F","R","-","S","5","2","0","S","E","-","0",".","2","K","-","1","9">> }

SKIP_MODEL_CONTAINS == <<"P","E","C">>

SERIES_ORDER == [D |-> 0, E |-> 1, F |-> 2, A |-> 3, HEL |-> 4]

\* ------------------------------------------------------------------------
\* extract_capacity_kw
\* ------------------------------------------------------------------------
\* end of the maximal run of digits that starts at i (s[i] is a digit)
DigitsEnd(s, i) ==
    CHOOSE j \in i..Len(s) :
        /\ \A k \in i..j : IsDigit(s[k])
        /\ (j = Len(s) \/ ~IsDigit(s[j + 1]))

\* end of the group [0-9]+(?:\.[0-9]+)? matched greedily from i
TokenEnd(s, i) ==
    LET j == DigitsEnd(s, i)
    IN IF j + 2 <= Len(s) /\ s[j + 1] = "." /\ IsDigit(s[j + 2])
       THEN DigitsEnd(s, j + 2)
       ELSE j

\* first position >= p that holds no whitespace (Len(s) + 1 when there is none)
SkipSpaces(s, p) ==
    CHOOSE q \in p..(Len(s) + 1) :
        /\ \A k \in p..(q - 1) : IsSpace(s[k])
        /\ (q = Len(s) + 1 \/ ~IsSpace(s[q]))

\* ([0-9]+(?:\.[0-9]+)?)\s*K matches at position i, ignoring case
CapMatchAt(s, i) ==
    /\ i >= 1 /\ i <= Len(s)
    /\ IsDigit(s[i])
    /\ LET q == SkipSpaces(s, TokenEnd(s, i) + 1)
       IN q <= Len(s) /\ LowerChar(s[q]) = "k"

\* H([0-9]+(?:\.[0-9]+)?)\s*K matches at position i, ignoring case
HCapMatchAt(s, i) ==
    /\ i >= 1 /\ i <= Len(s)
    /\ LowerChar(s[i]) = "h"
    /\ CapMatchAt(s, i + 1)

\* group(1) of re.search: the token of the leftmost match, <<>> when none
CapToken(s) ==
    LET P == { i \in 1..Len(s) : CapMatchAt(s, i) }
        H == { i \in 1..Len(s) : HCapMatchAt(s, i) }
    IN IF P # {}
       THEN LET i == SetMin(P) IN SubSeq(s, i, TokenEnd(s, i))
       ELSE IF H # {}
       THEN LET i == SetMin(H) IN SubSeq(s, i + 1, TokenEnd(s, i + 1))
       ELSE <<>>

\* faulty variant: the missing capacity is reported as 0
extract_capacity_kw_zero(model) ==
    LET tok == CapToken(model)
    IN IF tok # <<>> THEN ParseFloat(tok) ELSE R(0)

extract_capacity_kw(model) ==
    LET tok == CapToken(model)
    IN IF tok # <<>> THEN ParseFloat(tok) ELSE Inf

\* ------------------------------------------------------------------------
\* series_rank
\* ------------------------------------------------------------------------
FR == <<"F","R","-">>

\* FR-([A-Z]+) matches at position p
SeriesMatchAt(s, p) ==
    OccursAt(s, FR, p) /\ p + 3 <= Len(s) /\ IsUpper(s[p + 3])

\* group(1) of re.search(r"FR-([A-Z]+)", model), "" when there is no match
SeriesOf(s) ==
    LET P == { p \in 1..Len(s) : SeriesMatchAt(s, p) }
    IN IF P # {}
    THEN LET p == SetMin(P)
             e == CHOOSE j \in (p + 3)..Len(s) :
                     /\ \A k \in (p + 3)..j : IsUpper(s[k])
                     /\ (j = Len(s) \/ ~IsUpper(s[j + 1]))
         IN SubSeq(s, p + 3, e)
    ELSE <<>>

\* faulty variant: HEL anywhere in the identifier selects the HEL rank
series_rank_any_hel(model) ==
    LET series == SeriesOf(model)
    IN IF Contains(model, <<"H","E","L">>) THEN SERIES_ORDER["HEL"]
       ELSE IF series # <<>> /\ series[1] \in DOMAIN SERIES_ORDER
            THEN SERIES_ORDER[series[1]]
            ELSE 99

series_rank(model) ==
    LET series == SeriesOf(model)
    IN IF OccursAt(series, <<"H","E","L">>, 1) THEN SERIES_ORDER["HEL"]
       ELSE IF series # <<>> /\ series[1] \in DOMAIN SERIES_ORDER
            THEN SERIES_ORDER[series[1]]
            ELSE 99

\* ------------------------------------------------------------------------
\* find_price127
\* ------------------------------------------------------------------------
\* faulty variant: the 720/740 fallback is left out
find_price127_exact_only(model, p127) ==
    IF model \in DOMAIN p127 THEN p127[model] ELSE None

find_price127(model, p127) ==
    IF model \in DOMAIN p127 THEN p127[model]
    ELSE LET fallback ==
                 IF Contains(model, <<"7","2","0">>)
                 THEN replace1(model, <<"7","2","0">>, <<"8","2","0">>)
                 ELSE IF Contains(model, <<"7","4","0">>)
                 THEN replace1(model, <<"7","4","0">>, <<"8","4","0">>)
                 ELSE <<>>
         IN IF fallback # <<>> /\ fallback \in DOMAIN p127
            THEN p127[fallback]
            ELSE None

\* ------------------------------------------------------------------------
\* next_pdf_filename
\* ------------------------------------------------------------------------
NamePrefix == <<"S","I","S","L","_","V","F","D","_","P","L","_">>

NameMid == <<"_","V",".">>

NameExt == <<".","p","d","f">>

\* ^SISL_VFD_PL_{date}_V\.(\d+)\.pdf$ matches the file name f
PatternMatches(date, f) ==
    LET head == NamePrefix \o date \o NameMid
    IN /\ Len(f) > Len(head) + Len(NameExt)
       /\ OccursAt(f, head, 1)
       /\ OccursAt(f, NameExt, Len(f) - Len(NameExt) + 1)
       /\ \A k \in (Len(head) + 1)..(Len(f) - Len(NameExt)) : IsDigit(f[k])

\* int(m.group(1)) for a matching file name
VersionOf(date, f) ==
    DigitsToInt(SubSeq(f, Len(NamePrefix) + Len(date) + Len(NameMid) + 1,
                       Len(f) - Len(NameExt)))

\* faulty variant: the version is the number of reports of the day plus one
next_pdf_filename_count(date, dir) ==
    LET versions == { VersionOf(date, f) : f \in { g \in dir : PatternMatches(date, g) } }
        ver == Cardinality(versions) + 1
    IN NamePrefix \o date \o NameMid \o Format02d(ver) \o NameExt

next_pdf_filename(date, dir) ==
    LET versions == { VersionOf(date, f) : f \in { g \in dir : PatternMatches(date, g) } }
        ver == IF versions # {} THEN SetMax(versions) + 1 ELSE 1
    IN NamePrefix \o date \o NameMid \o Format02d(ver) \o NameExt

\* ------------------------------------------------------------------------
\* Input data: model identifiers, inventory rows and price tables that the
\* three CSV files may hold (Model columns already stripped by
\* ensure_model_col)
\* ------------------------------------------------------------------------
\* FR-D720S-5.5K
M_D720 == <<"F","R","-","D","7","2","0","S","-","5",".","5","K">>

\* FR-D820S-5.5K
M_D820 == <<"F","R","-","D","8","2","0","S","-","5",".","5","K">>

\* FR-A820-5.5K-1
M_A820 == <<"F","R","-","A","8","2","0","-","5",".","5","K","-","1">>

\* FR-E820-5.5K-1
M_E820 == <<"F","R","-","E","8","2","0","-","5",".","5","K","-","1">>

\* FR-E740-3.7K
M_E740 == <<"F","R","-","E","7","4","0","-","3",".","7","K">>

\* FR-E840-3.7K
M_E840 == <<"F","R","-","E","8","4","0","-","3",".","7","K">>

\* FR-E840-3.7K-1
M_E840_1 == <<"F","R","-","E","8","4","0","-","3",".","7","K","-","1">>

\* FR-A840-3.7K-1
M_A840_1 == <<"F","R","-","A","8","4","0","-","3",".","7","K","-","1">>

\* FR-F840-37K
M_F840 == <<"F","R","-","F","8","4","0","-","3","7","K">>

\* FR-HEL-H75K
M_HEL == <<"F","R","-","H","E","L","-","H","7","5","K">>

\* UNKNOWN-MODEL-X
M_UNK == <<"U","N","K","N","O","W","N","-","M","O","D","E","L","-","X">>

\* FR-S520SE-0.2K-19
M_SKIP == <<"F","R","-","S","5","2","0","S","E","-","0",".","2","K","-","1","9">>

\* fr-s520se-0.2k-19
M_SKIP_LC == <<"f","r","-","s","5","2","0","s","e","-","0",".","2","k","-","1","9">>

\* FR-Pec-1.5K
M_PEC == <<"F","R","-","P","e","c","-","1",".","5","K">>

\* FR-A840-75K-HEL
M_TAILHEL == <<"F","R","-","A","8","4","0","-","7","5","K","-","H","E","L">>

Row(m, q, c) == [Model |-> m, Qty |-> q, TotalCost |-> c]

InvRows ==
    { Row(M_D720, R(2), R(40000)), Row(M_D720, R(2), R(0)),
      Row(M_D720, R(0), R(40000)), Row(M_E740, NaN, R(3000)),
      Row(M_E740, R(1), R(3000)),  Row(M_F840, R(1), R(20000)),
      Row(M_HEL, R(3), R(1000)),   Row(M_UNK, R(1), NaN),
      Row(M_SKIP, R(1), R(100)),   Row(M_SKIP_LC, R(1), R(100)),
      Row(M_PEC, R(1), R(100)),    Row(M_A820, R(1), R(30000)),
      Row(M_TAILHEL, R(1), R(100)) }

\* pairs <<list-price map, 1.27 price map>>
PriceTables ==
    { << (M_D720 :> R(60000)) @@ (M_A820 :> R(50000)) @@ (M_F840 :> R(28000))
             @@ (M_SKIP_LC :> R(10)),
         (M_D720 :> R(45000)) @@ (M_D820 :> R(44000)) @@ (M_E820 :> R(43000))
             @@ (M_F840 :> R(30000)) >>,
      << (M_A820 :> R(50000)) @@ (M_A840_1 :> R(7000)) @@ (M_F840 :> R(0))
             @@ (M_HEL :> NaN),
         (M_D820 :> R(44000)) @@ (M_E840 :> R(3000)) @@ (M_HEL :> NaN) >>,
      << (M_UNK :> R(500)) @@ (M_D720 :> R(10000)),
         (M_E820 :> R(43000)) @@ (M_E840_1 :> R(2900)) >> }

\* sequences over S of length at most n
SeqUpTo(S, n) == UNION { [1..k -> S] : k \in 0..n }

Date1 == <<"2","6","1","1","0","4">>

Date2 == <<"2","6","1","1","0","5">>

Dates == {Date1, Date2}

ReportName(date, digits) == NamePrefix \o date \o NameMid \o digits \o NameExt

\* a file of pdf_reports/ that is no report
OtherFile == <<"n","o","t","e","s",".","t","x","t">>

InitDirs ==
    { {},
      { ReportName(Date1, <<"0","1">>), ReportName(Date1, <<"7">>),
        ReportName(Date2, <<"0","9">>), OtherFile },
      { ReportName(Date1, <<"0","9">>), ReportName(Date1, <<"0","2">> ) \o <<".","b","a","k">> },
      { ReportName(Date1, <<"9","9">>) } }

\* ------------------------------------------------------------------------
\* TRANSFORM loop
\* ------------------------------------------------------------------------
\* the exclusion filter of one row (the two `continue` branches)
Skipped(row) ==
    \/ isna(row.Qty) \/ row.Qty = R(0)
    \/ row.Model \in SKIP_MODEL_EXACT
    \/ Contains(lower(row.Model), lower(SKIP_MODEL_CONTAINS))

\* cogs = total_cost / qty when total_cost is a number and qty is truthy
Cogs(row) ==
    IF ~isna(row.TotalCost) /\ Truthy(row.Qty)
    THEN FDiv(row.TotalCost, row.Qty)
    ELSE None

\* faulty variant: the FR-A820 identifier of the same capacity is looked up
\* before the model itself
ListPriceOfSwapFirst(model, lpmap) ==
    LET alt == FR \o <<"A","8","2","0","-">> \o CapToken(model) \o <<"K","-","1">>
    IN IF alt \in DOMAIN lpmap THEN lpmap[alt]
       ELSE IF model \in DOMAIN lpmap THEN lpmap[model] ELSE None

\* listprice_map.get(model)
ListPriceOf(model, lpmap) ==
    IF model \in DOMAIN lpmap THEN lpmap[model] ELSE None

\* faulty variant: a missing list price yields a discount price of 0
DiscountZero(list_price, pct) ==
    IF Truthy(list_price) THEN FMul(list_price, Rat(100 - pct, 100)) ELSE R(0)

\* list_price * factor if list_price else None
Discount(list_price, pct) ==
    IF Truthy(list_price) THEN FMul(list_price, Rat(100 - pct, 100)) ELSE None

\* faulty variant: a unit cost of 0 is treated like a missing one
GpPercentCogsTruthy(list_price, cogs) ==
    IF Truthy(list_price) /\ Truthy(cogs)
    THEN FMul(FDiv(FSub(list_price, cogs), list_price), R(100))
    ELSE None

\* ((list_price - cogs) / list_price) * 100 if list_price and cogs is not None
GpPercent(list_price, cogs) ==
    IF Truthy(list_price) /\ cogs # None
    THEN FMul(FDiv(FSub(list_price, cogs), list_price), R(100))
    ELSE None

\* the record appended for a row that is not skipped
MakeRecord(row, lpmap, p127) ==
    LET model == row.Model
        cogs == Cogs(row)
        list_price == ListPriceOf(model, lpmap)
    IN [ Model |-> model,
         Qty |-> row.Qty,
         ListPrice |-> list_price,
         Disc20 |-> Discount(list_price, 20),
         Disc25 |-> Discount(list_price, 25),
         Disc30 |-> Discount(list_price, 30),
         GP |-> GpPercent(list_price, cogs),
         COGS |-> cogs,
         COGSx175 |-> IF cogs # None THEN FMul(cogs, Rat(175, 100)) ELSE None,
         P127 |-> find_price127(model, p127) ]

\* ------------------------------------------------------------------------
\* Sorting: df.sort_values(["CapacityKW", "SeriesRank"]) is a stable
\* lexicographic sort on the two key columns
\* ------------------------------------------------------------------------
WithKeys(rec) ==
    [ Model |-> rec.Model, Qty |-> rec.Qty, ListPrice |-> rec.ListPrice,
      Disc20 |-> rec.Disc20, Disc25 |-> rec.Disc25, Disc30 |-> rec.Disc30,
      GP |-> rec.GP, COGS |-> rec.COGS, COGSx175 |-> rec.COGSx175,
      P127 |-> rec.P127,
      CapacityKW |-> extract_capacity_kw(rec.Model),
      SeriesRank |-> series_rank(rec.Model) ]

\* faulty variant: the series rank is ignored
KeyLTCapacityOnly(a, b) == FloatLT(a.CapacityKW, b.CapacityKW)

KeyLT(a, b) ==
    \/ FloatLT(a.CapacityKW, b.CapacityKW)
    \/ (a.CapacityKW = b.CapacityKW /\ a.SeriesRank < b.SeriesRank)

\* insert x behind every element whose key is not greater than x's
RECURSIVE InsertSorted(_, _)
InsertSorted(s, x) ==
    IF s = <<>> THEN <<x>>
    ELSE IF KeyLT(x, s[Len(s)])
         THEN Append(InsertSorted(SubSeq(s, 1, Len(s) - 1), x), s[Len(s)])
         ELSE Append(s, x)

RECURSIVE sort_values(_)
sort_values(s) ==
    IF s = <<>> THEN <<>>
    ELSE InsertSorted(sort_values(SubSeq(s, 1, Len(s) - 1)), s[Len(s)])

\* df.insert(0, "SL", range(1, len(df) + 1))
WithSL(rec, n) ==
    [ SL |-> n,
      Model |-> rec.Model, Qty |-> rec.Qty, ListPrice |-> rec.ListPrice,
      Disc20 |-> rec.Disc20, Disc25 |-> rec.Disc25, Disc30 |-> rec.Disc30,
      GP |-> rec.GP, COGS |-> rec.COGS, COGSx175 |-> rec.COGSx175,
      P127 |-> rec.P127,
      CapacityKW |-> rec.CapacityKW, SeriesRank |-> rec.SeriesRank ]

\* ------------------------------------------------------------------------
\* The script as a state machine
\* ------------------------------------------------------------------------
Init ==
    /\ inv_df \in SeqUpTo(InvRows, MaxRows)
    /\ \E t \in PriceTables : listprice_map = t[1] /\ price127_map = t[2]
    /\ DATE_STR = Date1
    /\ PDF_DIR = {}
    /\ idx = 0
    /\ records = <<>>
    /\ df = <<>>
    /\ filename = None
    /\ run_no = 1
    /\ pc = "transform"

\* one iteration of `for _, row in inv_df.iterrows()`
TransformRow ==
    /\ pc = "transform"
    /\ idx < Len(inv_df)
    /\ LET row == inv_df[idx + 1]
       IN records' = IF Skipped(row) THEN records
                     ELSE Append(records, MakeRecord(row, listprice_map, price127_map))
    /\ idx' = idx + 1
    /\ UNCHANGED <<inv_df, listprice_map, price127_map, DATE_STR, PDF_DIR, df,
                   filename, run_no, pc>>

\* pd.DataFrame(records), the two key columns and sort_values
SortFrame ==
    /\ pc = "transform"
    /\ idx = Len(inv_df)
    /\ records # <<>>
    /\ df' = sort_values([k \in 1..Len(records) |-> WithKeys(records[k])])
    /\ pc' = "number"
    /\ UNCHANGED <<inv_df, listprice_map, price127_map, DATE_STR, PDF_DIR, idx,
                   records, filename, run_no>>

\* pd.DataFrame([]) has no "Model" column: df["Model"] raises KeyError
SortEmptyFrame ==
    /\ pc = "transform"
    /\ idx = Len(inv_df)
    /\ records = <<>>
    /\ pc' = "error"
    /\ UNCHANGED <<inv_df, listprice_map, price127_map, DATE_STR, PDF_DIR, idx,
                   records, df, filename, run_no>>

AddSL ==
    /\ pc = "number"
    /\ df' = [k \in 1..Len(df) |-> WithSL(df[k], k)]
    /\ pc' = "save"
    /\ UNCHANGED <<inv_df, listprice_map, price127_map, DATE_STR, PDF_DIR, idx,
                   records, filename, run_no>>

\* filename = next_pdf_filename(); pdf.output(str(filename))
SavePDF ==
    /\ pc = "save"
    /\ filename' = next_pdf_filename(DATE_STR, PDF_DIR)
    /\ PDF_DIR' = PDF_DIR \cup {filename'}
    /\ pc' = "done"
    /\ UNCHANGED <<inv_df, listprice_map, price127_map, DATE_STR, idx, records,
                   df, run_no>>

\* the script is started again, on the same day or on another one
NewRun ==
    /\ pc \in {"done", "error"}
    /\ run_no < MaxRuns
    /\ run_no' = run_no + 1
    /\ DATE_STR' \in Dates
    /\ idx' = 0
    /\ records' = <<>>
    /\ df' = <<>>
    /\ filename' = None
    /\ pc' = "transform"
    /\ UNCHANGED <<inv_df, listprice_map, price127_map, PDF_DIR>>

Next == TransformRow \/ SortFrame \/ SortEmptyFrame \/ AddSL \/ SavePDF

Spec == Init /\ [][Next]_vars

\* repeated runs over one pdf_reports/ directory
RunRows == { Row(M_D720, R(2), R(40000)), Row(M_D720, R(0), R(40000)) }

InitRuns ==
    /\ inv_df \in SeqUpTo(RunRows, MaxRows)
    /\ \E t \in PriceTables : listprice_map = t[1] /\ price127_map = t[2]
    /\ DATE_STR = Date1
    /\ PDF_DIR \in InitDirs
    /\ idx = 0
    /\ records = <<>>
    /\ df = <<>>
    /\ filename = None
    /\ run_no = 1
    /\ pc = "transform"

NextRuns == Next \/ NewRun

SpecRuns == InitRuns /\ [][NextRuns]_vars

\* ------------------------------------------------------------------------
\* Properties
\* ------------------------------------------------------------------------
\* the rows of the inventory the TRANSFORM loop has consumed and kept
KeptRows == { k \in 1..idx : ~Skipped(inv_df[k]) }

RecordSet == { records[k] : k \in 1..Len(records) }

Sorted == pc \in {"number", "save", "done"}

Numbered == pc \in {"save", "done"}

S720 == <<"7","2","0">>

S740 == <<"7","4","0">>

S820 == <<"8","2","0">>

S840 == <<"8","4","0">>

\* C1: a kept inventory model that is an exact key of the list-price table
\* has a record, and every record of such a model carries exactly the
\* table's value for that key, whatever other keys the table holds.
C1_ExactListPrice ==
    /\ \A r \in RecordSet :
           r.Model \in DOMAIN listprice_map => r.ListPrice = listprice_map[r.Model]
    /\ \A k \in KeptRows :
           inv_df[k].Model \in DOMAIN listprice_map =>
               \E r \in RecordSet : /\ r.Model = inv_df[k].Model
                                    /\ r.ListPrice = listprice_map[inv_df[k].Model]

\* FR-D720S-5.5K is priced 60000 by its own key although the table also
\* holds the equivalent FR-A820-5.5K-1 at 50000
C1_Witness ==
    /\ M_A820 \in DOMAIN listprice_map
    /\ listprice_map[M_A820] = R(50000)
    /\ \E r \in RecordSet : r.Model = M_D720 /\ r.ListPrice = R(60000)

\* the 720/820 and 740/840 equivalence of the list-price fallback:
\* FR-D720.. / FR-E720.. <-> FR-A820-<capacity>K-1, likewise 740 <-> 840
StartsWith(s, pre) == OccursAt(s, pre, 1)

MatchesEquivalence(model) ==
    \E ser \in {<<"D">>, <<"E">>} : \E code \in {S720, S740} :
        StartsWith(model, FR \o ser \o code) /\ CapToken(model) # <<>>

EquivalentListModel(model) ==
    FR \o <<"A">> \o (IF Contains(model, S720) THEN S820 ELSE S840)
       \o <<"-">> \o CapToken(model) \o <<"K","-","1">>

\* C2: a record whose model matches the equivalence pattern and has no
\* exact list-price entry carries the price of the equivalent identifier
\* whenever that identifier is a key of the list-price table.
C2_EquivalentListPrice ==
    \A r \in RecordSet :
        ( /\ MatchesEquivalence(r.Model)
          /\ r.Model \notin DOMAIN listprice_map
          /\ EquivalentListModel(r.Model) \in DOMAIN listprice_map )
        => r.ListPrice = listprice_map[EquivalentListModel(r.Model)]

\* C3: a kept row whose model has no list price is still emitted, with the
\* list price, the three discounts and the gross-profit percentage all
\* absent (not zero), and the run does not end in an exception.
C3_MissingPriceAbsent ==
    /\ \A r \in RecordSet :
           isna(r.ListPrice) =>
               /\ isna(r.Disc20) /\ isna(r.Disc25) /\ isna(r.Disc30) /\ isna(r.GP)
    /\ \A k \in KeptRows :
           inv_df[k].Model \notin DOMAIN listprice_map =>
               /\ pc # "error"
               /\ \E r \in RecordSet :
                      /\ r.Model = inv_df[k].Model /\ r.Qty = inv_df[k].Qty
                      /\ r.ListPrice = None
                      /\ r.Disc20 = None /\ r.Disc25 = None /\ r.Disc30 = None
                      /\ r.GP = None

\* a finished run whose report holds a record without list price
C3_Witness ==
    /\ pc = "done"
    /\ \E k \in 1..Len(df) :
           /\ df[k].Model = M_E740 /\ M_E740 \notin DOMAIN listprice_map
           /\ df[k].ListPrice = None /\ df[k].Disc20 = None /\ df[k].GP = None
           /\ df[k].COGS = R(3000)

\* C4: no record has quantity 0, a model equal to FR-S520SE-0.2K-19 ignoring
\* case, or a model containing PEC ignoring case.
C4_ExclusionInvariant ==
    \A r \in RecordSet :
        /\ r.Qty # R(0)
        /\ \A ex \in SKIP_MODEL_EXACT : lower(r.Model) # lower(ex)
        /\ ~Contains(lower(r.Model), lower(SKIP_MODEL_CONTAINS))

\* C5: in the sorted frame every adjacent pair is ordered by capacity, then
\* by series rank, and the SL column numbers the rows 1..n in that order.
C5_SortInvariant ==
    /\ Sorted =>
          /\ Len(df) = Len(records)
          /\ \A k \in 1..(Len(df) - 1) :
                LET c1 == extract_capacity_kw(df[k].Model)
                    c2 == extract_capacity_kw(df[k + 1].Model)
                IN \/ FloatLT(c1, c2)
                   \/ (c1 = c2 /\ series_rank(df[k].Model) <= series_rank(df[k + 1].Model))
    /\ Numbered => \A k \in 1..Len(df) : df[k].SL = k

\* the sort moved FR-D720S-5.5K in front of FR-A820-5.5K-1 (equal capacity,
\* series D before A)
C5_Witness ==
    /\ pc = "done"
    /\ Len(df) = 2
    /\ records[1].Model = M_A820 /\ records[2].Model = M_D720
    /\ df[1].Model = M_D720 /\ df[1].SL = 1
    /\ df[2].Model = M_A820 /\ df[2].SL = 2

\* the secondary-tier equivalent named by the specification:
\* FR-E820-<capacity>K-1 for code 720, FR-E840-<capacity>K-1 for code 740
EquivalentTierModel(model) ==
    FR \o <<"E">> \o (IF Contains(model, S720) THEN S820 ELSE S840)
       \o <<"-">> \o CapToken(model) \o <<"K","-","1">>

\* C6 as stated: exact entry, else the series-E sub-series-820/840
\* identifier of the same capacity with suffix -1, else absent.
C6_TierPriceSeriesE ==
    \A r \in RecordSet :
        r.P127 =
            IF r.Model \in DOMAIN price127_map THEN price127_map[r.Model]
            ELSE IF /\ (Contains(r.Model, S720) \/ Contains(r.Model, S740))
                    /\ EquivalentTierModel(r.Model) \in DOMAIN price127_map
                 THEN price127_map[EquivalentTierModel(r.Model)]
                 ELSE None

\* C6 amended: exact entry; else, for a model containing 720, the entry of
\* the model with its first 720 replaced by 820 (series, capacity and suffix
\* unchanged); else, for a model containing 740, the entry of the model with
\* its first 740 replaced by 840; absent in every other case.
C6_TierPriceSameSeries ==
    \A r \in RecordSet :
        LET m == r.Model
            to820 == replace1(m, S720, S820)
            to840 == replace1(m, S740, S840)
        IN /\ m \in DOMAIN price127_map => r.P127 = price127_map[m]
           /\ ( m \notin DOMAIN price127_map /\ Contains(m, S720) ) =>
                  r.P127 = IF to820 \in DOMAIN price127_map
                           THEN price127_map[to820] ELSE None
           /\ ( m \notin DOMAIN price127_map /\ ~Contains(m, S720)
                /\ Contains(m, S740) ) =>
                  r.P127 = IF to840 \in DOMAIN price127_map
                           THEN price127_map[to840] ELSE None
           /\ ( m \notin DOMAIN price127_map /\ ~Contains(m, S720)
                /\ ~Contains(m, S740) ) => r.P127 = None

\* FR-D720S-5.5K priced through FR-D820S-5.5K, and FR-E740-3.7K through
\* FR-E840-3.7K, with no exact entry for either
C6_Witness ==
    /\ M_D720 \notin DOMAIN price127_map
    /\ M_E820 \notin DOMAIN price127_map
    /\ \E r \in RecordSet : r.Model = M_D720 /\ r.P127 = R(44000)
    /\ \E r \in RecordSet : r.Model = M_E740 /\ r.P127 = R(3000)

\* a numeric token directly in front of a K marker: a digit whose next
\* non-blank character is K or k
HasCapacityToken(model) ==
    \E i \in 1..Len(model) :
        /\ IsDigit(model[i])
        /\ \E q \in (i + 1)..Len(model) :
               /\ LowerChar(model[q]) = "k"
               /\ \A j \in (i + 1)..(q - 1) : model[j] = " "

\* the capacities printed in the identifiers of the input data
NominalCapacity ==
    (M_D720 :> Rat(55, 10)) @@ (M_A820 :> Rat(55, 10)) @@ (M_E740 :> Rat(37, 10))
    @@ (M_F840 :> R(37)) @@ (M_HEL :> R(75)) @@ (M_TAILHEL :> R(75))
    @@ (M_SKIP_LC :> Rat(2, 10))

GrossProfit(lp, uc) ==
    Rat((lp.num * uc.den - uc.num * lp.den) * lp.den * 100,
        lp.den * uc.den * lp.num)

\* C8 as stated: the formula exactly when list price and unit cost are both
\* present and nonzero, absent in every other case.
C8_GrossProfitBothNonzero ==
    \A r \in RecordSet :
        IF /\ ~isna(r.ListPrice) /\ r.ListPrice # R(0)
           /\ ~isna(r.COGS) /\ r.COGS # R(0)
        THEN r.GP = GrossProfit(r.ListPrice, r.COGS)
        ELSE isna(r.GP)

\* C8 amended: the formula exactly when the list price is present and
\* nonzero and the unit cost is present (a unit cost of 0 gives 100);
\* absent in every other case.
C8_GrossProfitPriceNonzero ==
    \A r \in RecordSet :
        IF /\ ~isna(r.ListPrice) /\ r.ListPrice # R(0)
           /\ ~isna(r.COGS)
        THEN r.GP = GrossProfit(r.ListPrice, r.COGS)
        ELSE isna(r.GP)

\* FR-F840-37K: unit cost 20000, list price 28000, gross profit 200/7 %
C8_Witness ==
    \E r \in RecordSet :
        /\ r.Model = M_F840 /\ r.ListPrice = R(28000) /\ r.COGS = R(20000)
        /\ r.GP = Rat(200, 7)

\* the rank of the H series, the last of the fixed order D < E < F < A < H
HRank == SERIES_ORDER["HEL"]

HEL == <<"H","E","L">>

\* the text behind the first FR- that an upper-case letter follows
\* (<<>> when the model has no such family prefix)
AfterPrefix(model) ==
    LET P == { p \in 1..Len(model) :
                 OccursAt(model, FR, p) /\ p + 3 <= Len(model)
                 /\ IsUpper(model[p + 3]) }
    IN IF P = {} THEN <<>>
       ELSE SubSeq(model, SetMin(P) + 3, Len(model))

\* rank of a single series letter in the fixed order; letters outside
\* D, E, F, A get a rank behind the H rank
LetterRank(c) ==
    IF c = "D" THEN 0 ELSE IF c = "E" THEN 1 ELSE IF c = "F" THEN 2
    ELSE IF c = "A" THEN 3 ELSE 99

\* C9 as stated: a model containing HEL gets the H rank; otherwise the rank
\* of the letter following FR- in the order D < E < F < A < H; every other
\* model a rank greater than the H rank.
C9_RankContainsHEL ==
    Sorted =>
        \A k \in 1..Len(df) :
            LET m == df[k].Model
                rest == AfterPrefix(m)
            IN /\ 0 < 1 /\ 1 < 2 /\ 2 < 3 /\ 3 < HRank
               /\ Contains(m, HEL) => df[k].SeriesRank = HRank
               /\ (~Contains(m, HEL) /\ rest # <<>> /\ LetterRank(rest[1]) < HRank)
                      => df[k].SeriesRank = LetterRank(rest[1])
               /\ (~Contains(m, HEL) /\ (rest = <<>> \/ LetterRank(rest[1]) > HRank))
                      => df[k].SeriesRank > HRank

\* C9 amended: a model in which HEL immediately follows the FR- prefix gets
\* the H rank; otherwise the rank of the letter following FR- in the order
\* D < E < F < A < H; every other model (another letter, or no FR- followed
\* by an upper-case letter) a rank greater than the H rank.
C9_RankPrefixHEL ==
    Sorted =>
        \A k \in 1..Len(df) :
            LET m == df[k].Model
                rest == AfterPrefix(m)
                isHEL == StartsWith(rest, HEL)
            IN /\ isHEL => (df[k].SeriesRank = HRank /\ HRank > 3)
               /\ (~isHEL /\ rest # <<>> /\ LetterRank(rest[1]) < HRank)
                      => df[k].SeriesRank = LetterRank(rest[1])
               /\ (~isHEL /\ (rest = <<>> \/ LetterRank(rest[1]) > HRank))
                      => df[k].SeriesRank > HRank

\* FR-HEL-H75K ranks as H, FR-A840-75K-HEL as A, in one sorted frame
C9_Witness ==
    /\ pc = "done"
    /\ Len(df) = 2
    /\ df[1].Model = M_TAILHEL /\ df[1].SeriesRank = 3
    /\ df[2].Model = M_HEL /\ df[2].SeriesRank = HRank

\* the versions of the reports of a date in a directory
VersionsOn(date, dir) ==
    { VersionOf(date, f) : f \in { g \in dir : PatternMatches(date, g) } }

\* C10: every save writes a report name of the run's date whose version is
\* 1 when the directory holds no report of that date and otherwise one more
\* than the largest version there; the name is new to the directory and its
\* version exceeds every version already written for that date.
C10_NextVersion ==
    [][ (pc = "save" /\ pc' = "done") =>
          LET old == VersionsOn(DATE_STR, PDF_DIR)
          IN /\ PatternMatches(DATE_STR, filename')
             /\ filename' \notin PDF_DIR
             /\ PDF_DIR' = PDF_DIR \cup {filename'}
             /\ old = {} => VersionOf(DATE_STR, filename') = 1
             /\ old # {} => /\ VersionOf(DATE_STR, filename') - 1 \in old
                            /\ \A v \in old : v < VersionOf(DATE_STR, filename')
      ]_vars

\* the second run of a day wrote V.02 next to the first run's V.01
C10_Witness ==
    /\ pc = "done"
    /\ run_no = 2
    /\ filename = ReportName(Date1, <<"0","2">>)
    /\ PDF_DIR = { ReportName(Date1, <<"0","1">>), ReportName(Date1, <<"0","2">>) }

====
